---- MODULE Spec2Model ----
(***************************************************************************)
(* A model of inb4404 (package src/inb4404): the SQLite hash index         *)
(* (database.py), the thread watcher (thread_watcher.py), the offline      *)
(* deduplicator (deduplicator.py) and the watcher supervisor               *)
(* (process_manager.py).                                                   *)
(*                                                                         *)
(* A path is <<directory, file name>> under downloads/<board>/; every      *)
(* thread has one directory (_determine_directory_name), here named like   *)
(* the thread.  Time is counted in ticks of 1/TicksPerSecond seconds, so   *)
(* that int(st_mtime) is a real truncation.  The index is always           *)
(* reachable: storage failures of SQLite are not part of this model.       *)
(***************************************************************************)
EXTENDS Integers, Sequences, FiniteSets, TLC

VARIABLES
    fs,          \* the storage tree: path -> file (content hash, mtime in ticks)
    db,          \* the hashes table: md5 -> row (path, thread, mtime, size)
    clock,       \* the wall clock, in ticks
    posts,       \* server: thread -> the posts with an attachment, oldest first
    gone,        \* server: thread -> the thread has been deleted
    pc,          \* watcher -> position in ThreadWatcher.watch
    md5_hashes,  \* watcher -> ThreadWatcher.md5_hashes
    throttle,    \* watcher -> ThreadWatcher.throttle (units of 0.5 s)
    items,       \* watcher -> the entry list of the current/last poll
    idx,         \* watcher -> index of the entry being processed
    polls,       \* number of poll iterations started, all watchers
    hist,        \* observations of the run (history only)
    dd_pc,       \* Deduplicator.run: position
    walk,        \* Deduplicator.scan_directory: the files os.walk still has to yield
    md5_map,     \* Deduplicator: the md5_map dict, as its items in insertion order
    queue,       \* the queue file: its lines, [link, dis] (dis: prefixed with '-')
    running_processes,  \* ProcessManager.running_processes: link -> process
    desired_links,      \* ProcessManager.run: the set load_queue returned
    dead_links,  \* check_dead_processes: the dead links still to handle
    spc,         \* ProcessManager.run: position in the pass
    live,        \* link -> number of running worker processes started for it
    reload,      \* Config.reload: the supervisor reloads the queue file
    dbfile,      \* the database file: usable, not openable, or locked
    legacy,      \* the directories that hold a legacy '.hashes.txt' file
    page,        \* the markup of a thread page: the matches of the file regex
    scraped,     \* process -> the entry list it made of the page
    qfile,       \* the queue file: present or missing
    dl           \* _disable_link: position, link and the lines it has read

wvars == <<fs, db, clock, posts, gone, pc, md5_hashes, throttle, items, idx, polls, hist>>
dvars == <<dd_pc, walk, md5_map>>
svars == <<queue, running_processes, desired_links, dead_links, spc, live, reload>>
evars == <<dbfile, legacy>>
nvars == <<page, scraped, qfile, dl>>
vars == <<wvars, dvars, svars, evars, nvars>>

-----------------------------------------------------------------------------
(* Bounds of the model *)

\* posts the server accumulates, over all threads
MaxPosts == 2
\* poll iterations started, over all watchers
MaxPolls == 3
\* times one watcher is started
MaxRuns == 2

-----------------------------------------------------------------------------
(* Program constants *)

\* config.py DEFAULT_THROTTLE = 0.5 s, in units of 0.5 s
DEFAULT_THROTTLE == 1
\* config.py DEFAULT_BACKOFF = 0.5 s, in units of 0.5 s
DEFAULT_BACKOFF == 1
\* number of parameters of HashDB.insert / HashDB.upsert after self
HashDBWriteParams == 5
\* number of arguments ThreadWatcher passes to self.db.insert / self.db.upsert
WatcherWriteArgs == 3
\* st_mtime is a float of seconds; int() keeps the whole seconds
TicksPerSecond == 2

-----------------------------------------------------------------------------
(* The universe *)

Hashes == {"h1", "h2"}
Names == {"a", "b"}
\* the order of file names (sorted(), and the directory listing order)
NameRank(n) == IF n = "a" THEN 1 ELSE 2
NameOrder == <<"a", "b">>
Watchers == {"w1", "w2"}
Threads == {"t1", "t2"}
\* "t0" is the directory of a thread that is no longer watched
Dirs == {"t0", "t1", "t2"}
Paths == Dirs \X Names

ThreadOf(w) == IF w = "w1" THEN "t1" ELSE "t2"

\* ThreadWatcher.__init__: directory = downloads/<board>/<thread_dir_name>
DirOf(w) == ThreadOf(w)

NoFile == [hash |-> "none", mtime |-> -1]
NoRec == [path |-> <<"none", "none">>, thread |-> "none", mtime |-> -1, size |-> -1]
NoExc == [type |-> "none", code |-> -1, status |-> 0]
\* two runs of a watcher: two processes
Processes == {1, 2}
NotScraped == [done |-> FALSE, items |-> <<>>]
\* no thread URL
NoLink == [thread |-> "none", fragment |-> ""]
NoDisable == [pc |-> "idle", link |-> NoLink, lines |-> <<>>, wrote |-> FALSE]
NoProc == [present |-> FALSE, alive |-> FALSE, exitcode |-> 0, ending |-> "none"]

\* the thread URLs a queue file can list: the URL of a thread, alone or with a
\* "#fragment" after it
Links == [thread : {"t1"}, fragment : {"", "#q"}]

\* ThreadURL.parse: the fragment is cut off, board and thread id are read from
\* the rest
ThreadOfLink(l) == l.thread

\* bytes of a file: its length depends on its content only
SizeOf(h) == IF h = "h1" THEN 1 ELSE 2

\* the files on disk (os.path.exists)
Exists(fsv, p) == p \in Paths /\ fsv[p] # NoFile

-----------------------------------------------------------------------------
(* database.py: HashDB *)

get_path(dbv, md5) == IF dbv[md5] = NoRec THEN <<"none", "none">> ELSE dbv[md5].path

has_hash(dbv, md5) == get_path(dbv, md5) # <<"none", "none">>

\* an insert that replaces the row of the hash
insert_Replaces(dbv, md5, path, thread_name, mtime, size) ==
    [dbv EXCEPT ![md5] = [path |-> path, thread |-> thread_name, mtime |-> mtime, size |-> size]]

\* INSERT OR IGNORE: the first writer wins
insert(dbv, md5, path, thread_name, mtime, size) ==
    IF dbv[md5] # NoRec THEN dbv
    ELSE [dbv EXCEPT ![md5] = [path |-> path, thread |-> thread_name, mtime |-> mtime, size |-> size]]

\* an upsert that keeps the row the hash already has
upsert_Ignores(dbv, md5, path, thread_name, mtime, size) ==
    IF dbv[md5] # NoRec THEN dbv
    ELSE [dbv EXCEPT ![md5] = [path |-> path, thread |-> thread_name, mtime |-> mtime, size |-> size]]

\* an upsert that does not store the file's mtime and size
upsert_NoStat(dbv, md5, path, thread_name, mtime, size) ==
    [dbv EXCEPT ![md5] = [path |-> path, thread |-> thread_name, mtime |-> -1, size |-> -1]]

\* INSERT OR REPLACE
upsert(dbv, md5, path, thread_name, mtime, size) ==
    [dbv EXCEPT ![md5] = [path |-> path, thread |-> thread_name, mtime |-> mtime, size |-> size]]

\* the store when a call is made: usable, not openable (sqlite3.connect
\* raises), or locked by another connection for longer than the timeout
StoreStates == {"ok", "unopenable", "locked"}

\* the journal mode of the database file: WAL once an init has succeeded
JournalModes == {"wal", "delete"}

\* _get_connection and the statements under it: the exception that leaves the
\* `with` block.  A lock stops every writer, and the readers too unless the
\* file is in WAL mode.
get_connection(store, journal, write) ==
    IF store = "unopenable" THEN "DatabaseError"
    ELSE IF store = "locked" /\ (write \/ journal # "wal") THEN "DatabaseError"
    ELSE "none"

\* What the read methods of HashDB give a caller while the database file is in
\* `state`: a read that cannot reach the store returns its empty value (None,
\* False, set()), the value it returns for a table without the row.
ReadView(state, dbv) ==
    IF get_connection(state, "wal", FALSE) = "none" THEN dbv ELSE [h \in Hashes |-> NoRec]

get_thread_hashes(dbv, thread_id) == {h \in Hashes : dbv[h] # NoRec /\ dbv[h].thread = thread_id}

\* a call that binds whatever the number of arguments
CallWrite_Binds(nargs, result, dbv) == [raised |-> "none", db |-> result]

\* A call self.db.insert(md5, path, thread) / self.db.upsert(md5, path, thread):
\* Python binds nargs positional arguments to the method's parameters and
\* raises TypeError when required ones are missing; the method body is not run.
CallWrite(nargs, result, dbv) ==
    IF nargs = HashDBWriteParams
    THEN [raised |-> "none", db |-> result]
    ELSE [raised |-> "TypeError", db |-> dbv]

-----------------------------------------------------------------------------
(* http_client.py: HTTPClient.fetch *)

\* The exception fetch raises for an HTTP status: 404 is ThreadNotFoundError,
\* every other failure is HTTPError(message): the exception object has no
\* attribute `code`, the status is only part of its message text.
FetchRaises(status) ==
    IF status = 200 THEN NoExc
    ELSE IF status = 404 THEN [type |-> "ThreadNotFoundError", code |-> -1, status |-> status]
    ELSE [type |-> "HTTPError", code |-> -1, status |-> status]

\* the kind of failure the caller of fetch sees: the exception's class, and for
\* an HTTPError the test watch() makes for a rate limit
\* (hasattr(ex, 'code') and ex.code == 429)
FailureKind(exc) ==
    IF exc.type = "ThreadNotFoundError" THEN "NotFound"
    ELSE IF exc.type = "HTTPError" /\ exc.code = 429 THEN "RateLimited"
    ELSE "Transient"

-----------------------------------------------------------------------------
(* The server *)

\* A post with an attachment: the uploader's file name (API field `filename`
\* plus `ext`), the server's file name (`tim` plus `ext`), and the md5 of the
\* attachment's bytes.
Posts == [name : Names, tim : Names, hash : Hashes]

TotalPosts == Len(posts["t1"]) + Len(posts["t2"])

\* a new post appears in a thread that still exists; server file names are unique
NewPost(t) ==
    /\ ~gone[t]
    /\ TotalPosts < MaxPosts
    /\ \E p \in Posts :
        /\ \A i \in 1..Len(posts[t]) : posts[t][i].tim # p.tim
        /\ posts' = [posts EXCEPT ![t] = Append(@, p)]
    /\ UNCHANGED <<fs, db, clock, gone, pc, md5_hashes, throttle, items, idx, polls, hist>>
    /\ UNCHANGED <<dvars, svars, evars, nvars>>

\* the thread is deleted (404 from then on)
DeleteThread(t) ==
    /\ ~gone[t]
    /\ gone' = [gone EXCEPT ![t] = TRUE]
    /\ UNCHANGED <<fs, db, clock, posts, pc, md5_hashes, throttle, items, idx, polls, hist>>
    /\ UNCHANGED <<dvars, svars, evars, nvars>>

\* What the server answers to one thread fetch: the JSON API's post list, or
\* (API unavailable) the page markup, or an HTTP failure status for both.
ThreadResponses(t) ==
    IF gone[t] THEN {[kind |-> "err", status |-> 404]}
    ELSE {[kind |-> "api", status |-> 200], [kind |-> "html", status |-> 200],
          [kind |-> "err", status |-> 429], [kind |-> "err", status |-> 500]}

-----------------------------------------------------------------------------
(* thread_watcher.py: ThreadWatcher *)

\* sorted(file_entries, key=name): a stable insertion sort
RECURSIVE InsertByName(_, _)
InsertByName(e, s) ==
    IF s = <<>> THEN <<e>>
    ELSE IF NameRank(Head(s).name) <= NameRank(e.name) THEN <<Head(s)>> \o InsertByName(e, Tail(s))
    ELSE <<e>> \o s

RECURSIVE SortByName(_)
SortByName(s) ==
    IF s = <<>> THEN <<>>
    ELSE InsertByName(s[Len(s)], SortByName(SubSeq(s, 1, Len(s) - 1)))

\* entries built from the JSON API: display name = filename + ext, with the md5
ApiEntries(ps) == [i \in 1..Len(ps) |-> [name |-> ps[i].name, hash |-> ps[i].hash, api |-> TRUE]]

\* entries scraped from the markup: the server file name, no md5
HtmlEntries(ps) == [i \in 1..Len(ps) |-> [name |-> ps[i].tim, hash |-> ps[i].hash, api |-> FALSE]]

\* _fetch_thread_data: both attempts sit in try/except Exception, so a failed
\* fetch yields ([], []) and nothing is raised to watch().
FetchThreadData(resp, ps) ==
    IF resp.kind = "api" THEN [items |-> SortByName(ApiEntries(ps)), raised |-> NoExc]
    ELSE IF FetchRaises(resp.status) = NoExc
         THEN [items |-> SortByName(HtmlEntries(ps)), raised |-> NoExc]
         ELSE [items |-> <<>>, raised |-> NoExc]

\* _determine_file_path with the default naming (no --title, no --origin-name)
DetermineFilePath(w, e) == <<DirOf(w), e.name>>

\* the check without the per-thread set
ApiMd5Known_IndexOnly(dbv, md5set, e) == e.api /\ has_hash(dbv, e.hash)

\* the check without the index
ApiMd5Known_SetOnly(dbv, md5set, e) == e.api /\ e.hash \in md5set

\* _process_file_entry, "Check API MD5 before downloading"
ApiMd5Known(dbv, md5set, e) ==
    e.api /\ (has_hash(dbv, e.hash) \/ e.hash \in md5set)

\* os.listdir(self.directory): the names present, in the directory's order
Listing(fsv, dir) == SelectSeq(NameOrder, LAMBDA n : Exists(fsv, <<dir, n>>))

\* _scan_directory: the loop over the listing.  st = the file tree, the index,
\* the condition of the database file, the per-thread set, the exception
\* raised (ends the scan), the paths deleted and the number of index writes
\* executed.
RECURSIVE ScanFiles(_, _, _, _)
ScanFiles(todo, st, dir, tid) ==
    IF todo = <<>> \/ st.raised # "none" THEN st
    ELSE LET full_path == <<dir, Head(todo)>>
             file_hash == st.fs[full_path].hash
             gpath == get_path(ReadView(st.dbfile, st.db), file_hash)
         IN  IF ~Exists(st.fs, full_path) THEN ScanFiles(Tail(todo), st, dir, tid)
             ELSE IF gpath # <<"none", "none">> /\ gpath # full_path /\ Exists(st.fs, gpath)
             THEN ScanFiles(Tail(todo),
                            [st EXCEPT !.fs = [@ EXCEPT ![full_path] = NoFile],
                                       !.deleted = @ \cup {full_path}],
                            dir, tid)
             ELSE LET up == IF gpath # <<"none", "none">> /\ ~Exists(st.fs, gpath)
                            THEN CallWrite(WatcherWriteArgs,
                                           upsert(st.db, file_hash, full_path, tid, -1, -1), st.db)
                            ELSE [raised |-> "none", db |-> st.db]
                      ins == CallWrite(WatcherWriteArgs,
                                       insert(up.db, file_hash, full_path, tid, -1, -1), up.db)
                      nup == IF gpath # <<"none", "none">> /\ ~Exists(st.fs, gpath) THEN 1 ELSE 0
                  IN  IF up.raised # "none" THEN [st EXCEPT !.raised = up.raised]
                      ELSE ScanFiles(Tail(todo),
                                     [st EXCEPT !.db = ins.db,
                                                !.md5 = @ \cup {file_hash},
                                                !.raised = ins.raised,
                                                !.writes = @ + nup + (IF ins.raised = "none" THEN 1 ELSE 0)],
                                     dir, tid)

ScanDirectory(fsv, dbv, state, md5set, dir, tid) ==
    ScanFiles(Listing(fsv, dir),
              [fs |-> fsv, db |-> dbv, dbfile |-> state, md5 |-> md5set, raised |-> "none",
               deleted |-> {}, writes |-> 0],
              dir, tid)

\* _save_file: write the bytes, add to the per-thread set, insert into the
\* index.  The insert is called with WatcherWriteArgs arguments; what it
\* raises leaves _save_file at that line (the log line and the new/ mirror are
\* not reached).
SaveFile(fsv, dbv, md5set, img_path, data_hash, tid, now) ==
    LET ins == CallWrite(WatcherWriteArgs, insert(dbv, data_hash, img_path, tid, -1, -1), dbv)
    IN  [fs |-> [fsv EXCEPT ![img_path] = [hash |-> data_hash, mtime |-> now]],
         md5 |-> md5set \cup {data_hash},
         db |-> ins.db,
         raised |-> ins.raised]

\* handlers that lower the throttle after an iteration that raised nothing
WatchHandler_Decays(raised, probe, thr) ==
    IF raised = NoExc THEN [pc |-> "entries", throttle |-> thr - DEFAULT_BACKOFF]
    ELSE [pc |-> "crashed", throttle |-> thr]

\* watch(): what the handlers around one iteration do with the exception that
\* reached them.  `probe` is the status the follow-up fetch of the thread URL
\* gets.  Result: the next position and the throttle.
WatchHandler(raised, probe, thr) ==
    IF raised = NoExc THEN [pc |-> "entries", throttle |-> thr]
    ELSE IF raised.type = "HTTPError"
    THEN IF raised.code = 429 THEN [pc |-> "poll", throttle |-> thr + DEFAULT_BACKOFF]
         ELSE IF FetchRaises(probe).type = "ThreadNotFoundError" THEN [pc |-> "gone", throttle |-> thr]
         ELSE IF FetchRaises(probe).type = "HTTPError"
              THEN [pc |-> IF FetchRaises(probe).code = 404 THEN "gone" ELSE "stopped", throttle |-> thr]
         ELSE [pc |-> "poll", throttle |-> thr]
    ELSE [pc |-> "crashed", throttle |-> thr]

ProbeStatuses(t) == IF gone[t] THEN {404} ELSE {200, 429, 500}

\* watch(), before the loop: _load_existing_hashes and _scan_directory.  An
\* exception raised here is not handled: the watcher process ends (exit code 1).
\* The scan removes the directory's '.hashes.txt' when the listing yields it
\* (reached: it did so before the scan ended).
Startup(w) ==
    /\ pc[w] = "init"
    /\ LET sc == ScanDirectory(fs, db, dbfile,
                               get_thread_hashes(ReadView(dbfile, db), ThreadOf(w)),
                               DirOf(w), ThreadOf(w))
       IN  /\ fs' = sc.fs
           /\ db' = sc.db
           /\ md5_hashes' = [md5_hashes EXCEPT ![w] = sc.md5]
           /\ pc' = [pc EXCEPT ![w] = IF sc.raised = "none" THEN "poll" ELSE "crashed"]
           /\ hist' = [hist EXCEPT
                !.runs[w] = @ + 1,
                !.deleted[w] = sc.deleted,
                !.writes[w] = sc.writes,
                !.deleted1[w] = IF hist.runs[w] = 0 THEN sc.deleted ELSE @,
                !.listed[w] = Len(Listing(fs, DirOf(w)))]
           /\ \E reached \in BOOLEAN :
                /\ sc.raised = "none" \/ DirOf(w) \notin legacy => reached
                /\ legacy' = IF reached THEN legacy \ {DirOf(w)} ELSE legacy
    /\ UNCHANGED <<clock, posts, gone, throttle, items, idx, polls>>
    /\ UNCHANGED <<dvars, svars, dbfile, nvars>>

\* The watcher process for the thread is started again (by the supervisor or by
\* the user): ThreadWatcher.__init__ builds a fresh object over the same
\* directory and index.
Restart(w) ==
    /\ pc[w] # "init"
    /\ hist.runs[w] < MaxRuns
    /\ pc' = [pc EXCEPT ![w] = "init"]
    /\ md5_hashes' = [md5_hashes EXCEPT ![w] = {}]
    /\ throttle' = [throttle EXCEPT ![w] = DEFAULT_THROTTLE]
    /\ items' = [items EXCEPT ![w] = <<>>]
    /\ idx' = [idx EXCEPT ![w] = 1]
    /\ hist' = [hist EXCEPT !.same[w] = FALSE, !.prevFail[w] = FALSE, !.curFail[w] = FALSE,
                            !.fetchedApi[w] = FALSE, !.fetchedNoApi[w] = FALSE,
                            !.idxWrite[w] = FALSE, !.novel[w] = 0, !.known[w] = FALSE,
                            !.outcome[w] = "none", !.access[w] = FALSE,
                            !.lastFetch[w] = 0, !.n429[w] = 0]
    /\ UNCHANGED <<fs, db, clock, posts, gone, polls>>
    /\ UNCHANGED <<dvars, svars, evars, nvars>>

\* watch(), one iteration up to the entry loop: fetch the thread, build the list
Poll(w) ==
    /\ pc[w] = "poll"
    /\ polls < MaxPolls
    /\ polls' = polls + 1
    /\ \E resp \in ThreadResponses(ThreadOf(w)) :
         LET r == FetchThreadData(resp, posts[ThreadOf(w)])
         IN  \E probe \in (IF r.raised = NoExc THEN {200} ELSE ProbeStatuses(ThreadOf(w))) :
               LET h == WatchHandler(r.raised, probe, throttle[w])
               IN  /\ throttle' = [throttle EXCEPT ![w] = h.throttle]
                   /\ items' = [items EXCEPT ![w] = IF h.pc = "entries" THEN r.items ELSE @]
                   /\ idx' = [idx EXCEPT ![w] = 1]
                   /\ pc' = [pc EXCEPT ![w] = IF h.pc = "entries"
                                              THEN (IF r.items = <<>> THEN "poll" ELSE "check")
                                              ELSE h.pc]
                   /\ hist' = [hist EXCEPT
                        !.same[w] = hist.lastFetch[w] = 200 /\ resp.status = 200 /\ r.items = items[w],
                        !.prevFail[w] = hist.curFail[w],
                        !.curFail[w] = FALSE,
                        !.fetchedApi[w] = FALSE,
                        !.fetchedNoApi[w] = FALSE,
                        !.idxWrite[w] = FALSE,
                        !.novel[w] = 0,
                        !.known[w] = FALSE,
                        !.outcome[w] = "none",
                        !.access[w] = FALSE,
                        !.lastFetch[w] = resp.status,
                        !.n429[w] = IF resp.status = 429 THEN @ + 1 ELSE @]
    /\ UNCHANGED <<fs, db, clock, posts, gone, md5_hashes>>
    /\ UNCHANGED <<dvars, svars, evars, nvars>>

\* the for loop of watch(): after an entry, the next one or the refresh sleep
NextPc(w) == IF idx[w] < Len(items[w]) THEN "check" ELSE "poll"

\* a check that looks the API md5 up before it tests the destination
EntryCheck_Md5First(fsv, dbv, md5set, img_path, e) ==
    IF ApiMd5Known(dbv, md5set, e) THEN [outcome |-> "known", access |-> TRUE]
    ELSE IF Exists(fsv, img_path) THEN [outcome |-> "exists", access |-> e.api]
    ELSE [outcome |-> "download", access |-> e.api]

\* _process_file_entry up to the download, in the code's order: the file at
\* the destination exists (return), the API md5 is looked up in the index and
\* in the per-thread set (return), else the download.  access: the index was
\* read (get_path is called when the entry carries an API md5).
EntryCheck(fsv, dbv, md5set, img_path, e) ==
    IF Exists(fsv, img_path) THEN [outcome |-> "exists", access |-> FALSE]
    ELSE IF ApiMd5Known(dbv, md5set, e) THEN [outcome |-> "known", access |-> TRUE]
    ELSE [outcome |-> "download", access |-> e.api]

\* _process_file_entry up to the download: destination, exists, API md5 check
Check(w) ==
    /\ pc[w] = "check"
    /\ LET e == items[w][idx[w]]
           img_path == DetermineFilePath(w, e)
           ck == EntryCheck(fs, ReadView(dbfile, db), md5_hashes[w], img_path, e)
           skip == ck.outcome # "download"
       IN  /\ pc' = [pc EXCEPT ![w] = IF skip THEN NextPc(w) ELSE "download"]
           /\ idx' = [idx EXCEPT ![w] = IF skip THEN @ + 1 ELSE @]
           /\ hist' = [hist EXCEPT
                !.known[w] = e.api /\ (db[e.hash] # NoRec \/ e.hash \in md5_hashes[w]),
                !.outcome[w] = ck.outcome,
                !.access[w] = ck.access]
    /\ UNCHANGED <<fs, db, clock, posts, gone, md5_hashes, throttle, items, polls>>
    /\ UNCHANGED <<dvars, svars, evars, nvars>>

\* a re-check that looks at the per-thread set only
DuplicateAfterDownload_SetOnly(dbv, md5set, data_hash) == data_hash \in md5set

\* _process_file_entry, "Double-check after download"
DuplicateAfterDownload(dbv, md5set, data_hash) ==
    data_hash \in md5set \/ has_hash(dbv, data_hash)

\* an entry loop without the try/except around the download
EntryHandler_Propagates(raised) == IF raised = "none" THEN "next" ELSE "crashed"

\* _process_file_entry, the two except clauses around the download: whatever
\* was raised is logged and the method returns, so the loop goes on
EntryHandler(raised) == "next"

\* the statuses the server answers a fetch of an attachment with
EntryStatuses == {200, 404, 500}

\* _process_file_entry from the download on: fetch the bytes (status: what the
\* server answers), hash them, re-check, _save_file, sleep for the throttle;
\* every exception is caught and logged, and the entry loop goes on.
Download(w) ==
    /\ pc[w] = "download"
    /\ \E status \in EntryStatuses :
         LET e == items[w][idx[w]]
             img_path == DetermineFilePath(w, e)
             data_hash == e.hash
             ok == FetchRaises(status) = NoExc
             dup == DuplicateAfterDownload(ReadView(dbfile, db), md5_hashes[w], data_hash)
             sv == SaveFile(fs, db, md5_hashes[w], img_path, data_hash, ThreadOf(w), clock)
             saved == ok /\ ~dup
             raised == IF ~ok THEN FetchRaises(status).type
                       ELSE IF dup THEN "none" ELSE sv.raised
             slept == saved /\ sv.raised = "none"
         IN  /\ fs' = IF saved THEN sv.fs ELSE fs
             /\ db' = IF saved THEN sv.db ELSE db
             /\ md5_hashes' = [md5_hashes EXCEPT ![w] = IF saved THEN sv.md5 ELSE @]
             /\ clock' = IF slept THEN clock + throttle[w] ELSE clock
             /\ pc' = [pc EXCEPT ![w] = IF EntryHandler(raised) = "next" THEN NextPc(w) ELSE "crashed"]
             /\ hist' = [hist EXCEPT
                  !.outcome[w] = IF ~ok THEN "failed" ELSE IF dup THEN "dup" ELSE "saved",
                  !.access[w] = ok /\ data_hash \notin md5_hashes[w],
                  !.curFail[w] = @ \/ ~ok,
                  !.fetchedApi[w] = @ \/ e.api,
                  !.fetchedNoApi[w] = @ \/ ~e.api,
                  !.idxWrite[w] = @ \/ (saved /\ sv.raised = "none"),
                  !.novel[w] = IF ok /\ e.api /\ ~hist.known[w] THEN idx[w] ELSE @,
                  !.saves[data_hash] = IF saved /\ @ < 2 THEN @ + 1 ELSE @]
    /\ idx' = [idx EXCEPT ![w] = @ + 1]
    /\ UNCHANGED <<posts, gone, throttle, items, polls>>
    /\ UNCHANGED <<dvars, svars, evars, nvars>>

-----------------------------------------------------------------------------
(* The watcher's specification: one watcher and its thread on the server,     *)
(* over an index left by earlier runs                                         *)

\* a row the legacy script (insert_md5, thread = directory name) or an earlier
\* dedupe pass (thread = board/directory) left for a file that is gone since
InitRecs ==
    {[path |-> <<"t1", "b">>, thread |-> "t1", mtime |-> -1, size |-> -1],
     [path |-> <<"t0", "a">>, thread |-> "g/t0", mtime |-> 0, size |-> 1]}

HistInit ==
    [same |-> [w \in Watchers |-> FALSE],
     prevFail |-> [w \in Watchers |-> FALSE],
     curFail |-> [w \in Watchers |-> FALSE],
     fetchedApi |-> [w \in Watchers |-> FALSE],
     fetchedNoApi |-> [w \in Watchers |-> FALSE],
     idxWrite |-> [w \in Watchers |-> FALSE],
     novel |-> [w \in Watchers |-> 0],
     known |-> [w \in Watchers |-> FALSE],
     outcome |-> [w \in Watchers |-> "none"],
     access |-> [w \in Watchers |-> FALSE],
     lastFetch |-> [w \in Watchers |-> 0],
     n429 |-> [w \in Watchers |-> 0],
     saves |-> [h \in Hashes |-> 0],
     runs |-> [w \in Watchers |-> 0],
     deleted |-> [w \in Watchers |-> {}],
     writes |-> [w \in Watchers |-> 0],
     deleted1 |-> [w \in Watchers |-> {}],
     listed |-> [w \in Watchers |-> 0],
     fs0 |-> [p \in Paths |-> NoFile],
     missingAtLoad |-> FALSE,
     first |-> [done |-> FALSE, fs |-> [p \in Paths |-> NoFile],
                db |-> [h \in Hashes |-> NoRec], failed |-> {}],
     passes |-> 0,
     edits |-> 0,
     disabledAtLoad |-> {},
     started |-> {},
     retired |-> {},
     startedRetired |-> {},
     stopped |-> {},
     op |-> [kind |-> "none"],
     handling |-> [kind |-> "none"],
     by |-> [h \in Hashes |-> "none"],
     dd |-> [ran |-> FALSE, kept_count |-> 0, deleted_count |-> 0, failed |-> {},
             written |-> {}, stuck |-> {}, db0 |-> [h \in Hashes |-> NoRec]]]

\* no dedupe run
DedupeIdle ==
    /\ dd_pc = "idle"
    /\ walk = <<>>
    /\ md5_map = <<>>

\* no page scraped
ScrapeIdle ==
    /\ page = <<>>
    /\ scraped = [r \in Processes |-> NotScraped]

\* the queue file is there and no _disable_link is under way
QueueFileIdle ==
    /\ qfile = "present"
    /\ dl = NoDisable

\* a database file that can be opened and is not locked, and a tree without
\* legacy files
EnvIdle ==
    /\ dbfile = "ok"
    /\ legacy = {}
    /\ ScrapeIdle
    /\ QueueFileIdle

\* no supervisor
SupervisorIdle ==
    /\ queue = <<>>
    /\ running_processes = [l \in Links |-> NoProc]
    /\ desired_links = {}
    /\ dead_links = {}
    /\ spc = "load"
    /\ live = [l \in Links |-> 0]
    /\ reload = TRUE

\* the watchers before watch(), the server with no post yet
WatchersInit ==
    /\ clock = 0
    /\ posts = [t \in Threads |-> <<>>]
    /\ gone = [t \in Threads |-> FALSE]
    /\ pc = [w \in Watchers |-> "init"]
    /\ md5_hashes = [w \in Watchers |-> {}]
    /\ throttle = [w \in Watchers |-> DEFAULT_THROTTLE]
    /\ items = [w \in Watchers |-> <<>>]
    /\ idx = [w \in Watchers |-> 1]
    /\ polls = 0
    /\ hist = HistInit

Init ==
    /\ fs = [p \in Paths |-> NoFile]
    /\ db \in [Hashes -> {NoRec} \cup InitRecs]
    /\ WatchersInit
    /\ EnvIdle
    /\ DedupeIdle
    /\ SupervisorIdle

Next ==
    \/ NewPost("t1")
    \/ DeleteThread("t1")
    \/ Startup("w1")
    \/ Poll("w1")
    \/ Check("w1")
    \/ Download("w1")

Spec == Init /\ [][Next]_vars

-----------------------------------------------------------------------------
(* The fleet: both watchers on one index that starts empty *)

InitFleet == Init /\ db = [h \in Hashes |-> NoRec]

NextFleet ==
    \/ \E t \in Threads : NewPost(t)
    \/ \E w \in Watchers : Startup(w)
    \/ \E w \in Watchers : Poll(w)
    \/ \E w \in Watchers : Check(w)
    \/ \E w \in Watchers : Download(w)

SpecFleet == InitFleet /\ [][NextFleet]_vars

\* One watcher, and a database file that other processes lock and that can
\* become unopenable (its directory removed, the disk unreadable) and usable
\* again at any time.  The index holds a row for a file of another thread.
StoreChanges ==
    /\ \E state \in StoreStates \ {dbfile} : dbfile' = state
    /\ UNCHANGED <<wvars, dvars, svars, legacy, nvars>>

InitStore ==
    /\ Init
    /\ db = [h \in Hashes |-> IF h = "h1"
                              THEN [path |-> <<"t0", "a">>, thread |-> "g/t0", mtime |-> 0, size |-> 1]
                              ELSE NoRec]

NextStore ==
    \/ Next
    \/ StoreChanges

SpecStore == InitStore /\ [][NextStore]_vars

-----------------------------------------------------------------------------
(* deduplicator.py: Deduplicator *)

\* the paths a dedupe pass finds files at
DedupePaths == {<<"t0", "a">>, <<"t1", "a">>, <<"t1", "b">>}

\* os.walk(downloads_root): every directory, and in it every name
WalkOrder == <<<<"t0", "a">>, <<"t0", "b">>, <<"t1", "a">>, <<"t1", "b">>, <<"t2", "a">>, <<"t2", "b">>>>

\* int(stats.st_mtime): the whole seconds of a modification time
IntMtime(ticks) == ticks \div TicksPerSecond

\* os.path.dirname(os.path.relpath(kept_path, downloads_root)): board/directory
RelDirName(path) == "g/" \o path[1]

\* HashDB.get_file_metadata: the md5 of the rows whose path is `path`
\* (fetchone takes one of them, in no stated order)
get_file_metadata(dbv, path) == {h \in Hashes : dbv[h] # NoRec /\ dbv[h].path = path}

\* HashDB.delete_file_metadata: DELETE FROM hashes WHERE path=?
delete_file_metadata(dbv, path) ==
    [h \in Hashes |-> IF dbv[h] # NoRec /\ dbv[h].path = path THEN NoRec ELSE dbv[h]]

\* md5_map.setdefault(h, []).append(entry), the dict kept as its items in
\* insertion order
RECURSIVE MapAppend(_, _, _)
MapAppend(m, h, entry) ==
    IF m = <<>> THEN <<[md5 |-> h, paths |-> <<entry>>]>>
    ELSE IF Head(m).md5 = h THEN <<[md5 |-> h, paths |-> Append(Head(m).paths, entry)]>> \o Tail(m)
    ELSE <<Head(m)>> \o MapAppend(Tail(m), h, entry)

\* run(): a dedupe pass begins
DedupeStart ==
    /\ dd_pc = "idle"
    /\ dd_pc' = "scan"
    /\ walk' = WalkOrder
    /\ md5_map' = <<>>
    /\ hist' = [hist EXCEPT !.fs0 = fs]
    /\ UNCHANGED <<fs, db, clock, posts, gone, pc, md5_hashes, throttle, items, idx, polls>>
    /\ UNCHANGED <<svars, evars, nvars>>

\* a test that takes every row for stale
MetadataMatches_Never(row, mtime, size) == FALSE

\* a test that compares the modification times only
MetadataMatches_MtimeOnly(row, mtime, size) == row.mtime = mtime

\* scan_directory: `db_mtime == mtime and db_size == size`
MetadataMatches(row, mtime, size) == row.mtime = mtime /\ row.size = size

\* scan_directory: one file of the walk ('.hashes.txt' is passed over)
ScanFile ==
    /\ dd_pc = "scan"
    /\ walk # <<>>
    /\ walk' = Tail(walk)
    /\ LET full_path == Head(walk)
           mtime == IntMtime(fs[full_path].mtime)
           size == SizeOf(fs[full_path].hash)
           metadata == get_file_metadata(db, full_path)
           h == fs[full_path].hash
       IN  IF ~Exists(fs, full_path)
           THEN UNCHANGED <<db, md5_map>>
           ELSE IF metadata = {}
           THEN /\ md5_map' = MapAppend(md5_map, h, <<full_path, mtime, size>>)
                /\ UNCHANGED db
           ELSE \E db_md5 \in metadata :
                  IF MetadataMatches(db[db_md5], mtime, size)
                  THEN /\ md5_map' = MapAppend(md5_map, db_md5, <<full_path, mtime, size>>)
                       /\ UNCHANGED db
                  ELSE /\ db' = delete_file_metadata(db, full_path)
                       /\ md5_map' = MapAppend(md5_map, h, <<full_path, mtime, size>>)
    /\ UNCHANGED <<dd_pc, fs, clock, posts, gone, pc, md5_hashes, throttle, items, idx, polls, hist>>
    /\ UNCHANGED <<svars, evars, nvars>>

\* sorted(paths, key=lambda p: p[1]): a stable insertion sort on the mtime
RECURSIVE InsertByMtime(_, _)
InsertByMtime(e, s) ==
    IF s = <<>> THEN <<e>>
    ELSE IF Head(s)[2] <= e[2] THEN <<Head(s)>> \o InsertByMtime(e, Tail(s))
    ELSE <<e>> \o s

RECURSIVE SortByMtime(_)
SortByMtime(s) ==
    IF s = <<>> THEN <<>>
    ELSE InsertByMtime(s[Len(s)], SortByMtime(SubSeq(s, 1, Len(s) - 1)))

\* remove_duplicates, the loop over the paths after the kept one: os.remove,
\* deleted_count += 1; an os.remove that raises (the paths in `undeletable`,
\* and a path whose file is gone since the scan) is logged and the loop goes
\* on.  r = the tree, the count, the failures.
RECURSIVE RemoveFiles(_, _, _)
RemoveFiles(r, duplicates, undeletable) ==
    IF duplicates = <<>> THEN r
    ELSE IF Head(duplicates)[1] \in undeletable \/ ~Exists(r.fs, Head(duplicates)[1])
         THEN RemoveFiles([r EXCEPT !.failed = @ \cup {Head(duplicates)[1]}],
                          Tail(duplicates), undeletable)
         ELSE RemoveFiles([r EXCEPT !.fs = [@ EXCEPT ![Head(duplicates)[1]] = NoFile],
                                    !.deleted_count = @ + 1],
                          Tail(duplicates), undeletable)

\* an upsert for every group, whatever the index holds
NeedsIndexWrite_Always(dbv, h, kept_path) == TRUE

\* remove_duplicates: `self.db.get_path(h) != kept_path`
NeedsIndexWrite(dbv, h, kept_path) == get_path(dbv, h) # kept_path

\* remove_duplicates: the loop over md5_map.items(); st = the tree, the index,
\* kept_count, deleted_count, the paths whose removal failed, the hashes an
\* upsert was made for, and whether the loop was left early
RECURSIVE RemoveGroups(_, _, _)
RemoveGroups(m, st, undeletable) ==
    IF m = <<>> THEN st
    ELSE LET h == Head(m).md5
             paths_sorted == SortByMtime(Head(m).paths)
             kept == paths_sorted[1]
             write == NeedsIndexWrite(st.db, h, kept[1])
             dbn == IF write
                    THEN upsert(st.db, h, kept[1], RelDirName(kept[1]), kept[2], kept[3])
                    ELSE st.db
             rm == RemoveFiles([fs |-> st.fs, deleted_count |-> st.deleted_count, failed |-> st.failed],
                               Tail(paths_sorted), undeletable)
         IN  RemoveGroups(Tail(m),
                          [fs |-> rm.fs, db |-> dbn,
                           kept_count |-> st.kept_count + 1,
                           deleted_count |-> rm.deleted_count,
                           failed |-> rm.failed,
                           written |-> IF write THEN st.written \cup {h} ELSE st.written],
                          undeletable)

\* remove_legacy_files: os.remove of every '.hashes.txt' under the tree; a
\* removal that raises (the directories in `stuck`) is logged
remove_legacy_files(leg, stuck) == leg \cap stuck

\* run() after the scan: return if md5_map is empty, else remove_duplicates
\* and remove_legacy_files
RemoveDuplicates ==
    /\ dd_pc = "scan"
    /\ walk = <<>>
    /\ dd_pc' = "done"
    /\ \E undeletable \in SUBSET {p \in DedupePaths : Exists(fs, p)}, stuck \in SUBSET legacy :
         LET r == RemoveGroups(md5_map,
                               [fs |-> fs, db |-> db, kept_count |-> 0, deleted_count |-> 0,
                                failed |-> {}, written |-> {}],
                               undeletable)
         IN  IF md5_map = <<>>
             THEN /\ undeletable = {} /\ stuck = {}
                  /\ UNCHANGED <<fs, db, legacy>>
                  /\ hist' = [hist EXCEPT !.dd = [ran |-> FALSE, kept_count |-> 0, deleted_count |-> 0,
                                                 failed |-> {}, written |-> {}, stuck |-> {},
                                                 db0 |-> db]]
             ELSE /\ undeletable = {p \in r.failed : Exists(fs, p)}
                  /\ fs' = r.fs
                  /\ db' = r.db
                  /\ legacy' = remove_legacy_files(legacy, stuck)
                  /\ hist' = [hist EXCEPT !.dd = [ran |-> TRUE, kept_count |-> r.kept_count,
                                                 deleted_count |-> r.deleted_count,
                                                 failed |-> r.failed, written |-> r.written,
                                                 stuck |-> stuck, db0 |-> db]]
    /\ UNCHANGED <<walk, md5_map, clock, posts, gone, pc, md5_hashes, throttle, items, idx, polls>>
    /\ UNCHANGED <<svars, dbfile, nvars>>

\* bounds of the dedupe specification: modification times, in ticks
MaxMtime == 2


\* any files at these paths, written at any time
DedupeTrees ==
    {f \in [Paths -> {NoFile} \cup [hash : Hashes, mtime : 0..MaxMtime]] :
        \A p \in Paths : p \notin DedupePaths => f[p] = NoFile}

\* rows a watcher wrote (no mtime, no size) and rows a dedupe pass wrote
DedupeRows(h) ==
    {[path |-> p, thread |-> p[1], mtime |-> -1, size |-> -1] : p \in DedupePaths}
    \cup {[path |-> p, thread |-> RelDirName(p), mtime |-> m, size |-> SizeOf(h)] :
             p \in DedupePaths, m \in 0..IntMtime(MaxMtime)}

InitDedupe ==
    /\ fs \in DedupeTrees
    /\ db \in {d \in [Hashes -> {NoRec} \cup DedupeRows("h1") \cup DedupeRows("h2")] :
                  \A h \in Hashes : d[h] = NoRec \/ d[h] \in DedupeRows(h)}
    /\ WatchersInit
    /\ EnvIdle
    /\ DedupeIdle
    /\ SupervisorIdle

NextDedupe ==
    \/ DedupeStart
    \/ ScanFile
    \/ RemoveDuplicates

SpecDedupe == InitDedupe /\ [][NextDedupe]_vars

\* The same pass over a tree that also holds legacy '.hashes.txt' files, the
\* index empty
LegacyDirs == {"t0", "t1"}

InitLegacy ==
    /\ fs \in DedupeTrees
    /\ db = [h \in Hashes |-> NoRec]
    /\ WatchersInit
    /\ dbfile = "ok"
    /\ legacy \in SUBSET LegacyDirs
    /\ ScrapeIdle
    /\ QueueFileIdle
    /\ DedupeIdle
    /\ SupervisorIdle

SpecLegacy == InitLegacy /\ [][NextDedupe]_vars

-----------------------------------------------------------------------------
(* process_manager.py: ProcessManager *)

\* check_dead_processes: max_restarts = 3
max_restarts == 3

\* bounds of the supervisor specification: lines of the queue file, external
\* edits of it, reconciliation passes
MaxLines == 2
MaxEdits == 2
MaxPasses == 3

\* a queue-file line that names a thread URL, with or without the '-' prefix
Lines == [link : Links, dis : BOOLEAN]

\* the ways a watcher process ends: watch() raises SystemExit(404), breaks out
\* of its loop and returns, or re-raises an unexpected exception
Endings == {"gone", "stopped", "crashed"}

\* the status the child process exits with: SystemExit's code, 0 after a
\* normal return, 1 after an uncaught exception
RaisedStatus(ending) ==
    IF ending = "gone" THEN 404 ELSE IF ending = "stopped" THEN 0 ELSE 1

\* the platforms the supervisor runs on
Platforms == {"posix", "windows"}

\* Process.exitcode as the supervisor reads it: the status the child exited
\* with, kept to the width of the platform's exit status (8 bits where it goes
\* through exit() and wait(); 32 bits, more than any status a watcher raises,
\* where it is a process exit code of the Windows API)
exitcode_read(status, platform) ==
    IF platform = "posix" THEN status % (2 ^ 8) ELSE status

\* the exit codes the supervisor may read from a dead worker
ExitCodes == {exitcode_read(RaisedStatus(e), b) : e \in Endings, b \in Platforms}

LiveProc == [present |-> TRUE, alive |-> TRUE, exitcode |-> 0, ending |-> "none"]

\* a terminate() that leaves the worker running
terminate_Ignored(p) == p

\* stop_watcher: the process after terminate() and join(timeout=5).  The
\* watcher installs no handler for the termination signal, so the process ends.
terminate(p) ==
    IF p.alive THEN [p EXCEPT !.alive = FALSE, !.exitcode = -15, !.ending = "terminated"] ELSE p

\* load_queue: the stripped lines that start with 'http'
load_queue(q) == {q[i].link : i \in {j \in 1..Len(q) : ~q[j].dis}}

\* _disable_link: every line equal to the link and not yet prefixed gets the '-'
disable_link(q, link) ==
    [i \in 1..Len(q) |-> IF q[i].link = link /\ ~q[i].dis THEN [q[i] EXCEPT !.dis = TRUE] ELSE q[i]]

\* the links all of whose lines carry the '-' prefix
AllDisabled(q) ==
    {l \in Links : (\E i \in 1..Len(q) : q[i].link = l) /\ (\A i \in 1..Len(q) : q[i].link = l => q[i].dis)}

\* load_queue on the file as it is: open() raises FileNotFoundError for a
\* missing file, and the handler returns set()
open_queue(qf, q) == IF qf = "missing" THEN {} ELSE load_queue(q)

\* _disable_link on the file as it is: open() raises FileNotFoundError, an
\* IOError, for a missing file; the handler logs it
disable_file(qf, q, link) == IF qf = "missing" THEN q ELSE disable_link(q, link)

\* run(), top of a pass: load_queue, then the dead_links list of
\* check_dead_processes
LoadQueue ==
    /\ spc = "load"
    /\ hist.passes < MaxPasses
    /\ desired_links' = open_queue(qfile, queue)
    /\ dead_links' = {l \in Links : running_processes[l].present /\ ~running_processes[l].alive}
    /\ spc' = "check"
    /\ hist' = [hist EXCEPT !.passes = @ + 1,
                            !.disabledAtLoad = AllDisabled(queue),
                            !.missingAtLoad = qfile = "missing",
                            !.handling = [kind |-> "none"],
                            !.started = {}]
    /\ UNCHANGED <<queue, running_processes, live, reload>>
    /\ UNCHANGED <<fs, db, clock, posts, gone, pc, md5_hashes, throttle, items, idx, polls>>
    /\ UNCHANGED <<dvars, evars, nvars>>

\* a restart loop that makes every attempt, whatever the earlier ones gave
restart_loop_KeepsTrying(attempt, is_alive) ==
    [restarted |-> \E i \in attempt..max_restarts : is_alive[i], attempts |-> max_restarts]

\* the restart loop of _handle_dead_process, from attempt number `attempt` on:
\* is_alive[i] is what new_proc.is_alive() answers in attempt i, one second
\* after the start.  Result: whether a worker was registered, and the number
\* of the last attempt made.
RECURSIVE restart_loop(_, _)
restart_loop(attempt, is_alive) ==
    IF is_alive[attempt] THEN [restarted |-> TRUE, attempts |-> attempt]
    ELSE IF attempt = max_restarts THEN [restarted |-> FALSE, attempts |-> attempt]
    ELSE restart_loop(attempt + 1, is_alive)

\* _handle_dead_process for one dead link.  probe: the status the probe of the
\* thread URL gets; is_alive: for each restart attempt, whether its worker is
\* alive after the one-second wait.
HandleDeadProcess ==
    /\ spc = "check"
    /\ \E link \in dead_links : \E probe \in ProbeStatuses(ThreadOfLink(link)), is_alive \in [1..max_restarts -> BOOLEAN] :
         LET exitcode == running_processes[link].exitcode
             is_404 == FetchRaises(probe).type = "ThreadNotFoundError"
             retire == exitcode = 404 \/ is_404
             loop == restart_loop(1, is_alive)
             restarted == ~retire /\ loop.restarted
         IN  /\ dead_links' = dead_links \ {link}
             /\ queue' = IF restarted THEN queue ELSE disable_file(qfile, queue, link)
             /\ running_processes' = [running_processes EXCEPT ![link] = IF restarted THEN LiveProc ELSE NoProc]
             /\ live' = [live EXCEPT ![link] = IF restarted THEN @ + 1 ELSE @]
             /\ hist' = [hist EXCEPT
                  !.handling = [kind |-> "handled", link |-> link, retire |-> retire,
                                attempts |-> IF retire THEN 0 ELSE loop.attempts,
                                is_alive |-> IF retire THEN <<>>
                                             ELSE [i \in 1..loop.attempts |-> is_alive[i]],
                                restarted |-> restarted],
                  !.started = IF retire THEN @ ELSE @ \cup {link},
                  !.retired = IF retire THEN @ \cup {link} ELSE @,
                  !.startedRetired = IF ~retire /\ link \in hist.retired THEN @ \cup {link} ELSE @]
    /\ UNCHANGED <<desired_links, spc, reload>>
    /\ UNCHANGED <<fs, db, clock, posts, gone, pc, md5_hashes, throttle, items, idx, polls>>
    /\ UNCHANGED <<dvars, evars, nvars>>

\* a supervisor that goes on to the next pass whatever the mode
after_pass_Loops(rl) == "load"

\* run(), end of a pass: `if not self.config.reload:` join the workers and
\* break, else sleep and load the file again
after_pass(rl) == IF rl THEN "load" ELSE "join"

\* run(), rest of a pass, once check_dead_processes has returned: start a
\* watcher for every desired link without a process, stop the processes whose
\* link is not desired; then sleep until the reload or, without reload, go on
\* to join the workers
StartAndStop ==
    /\ spc = "check"
    /\ dead_links = {}
    /\ LET new_links == {l \in desired_links : ~running_processes[l].present}
       IN  /\ running_processes' =
                 [l \in Links |-> IF l \in new_links THEN LiveProc
                                  ELSE IF l \notin desired_links THEN NoProc
                                  ELSE running_processes[l]]
           /\ live' = [l \in Links |->
                 IF l \in new_links THEN live[l] + 1
                 ELSE IF l \notin desired_links /\ running_processes[l].alive
                           /\ ~terminate(running_processes[l]).alive
                      THEN live[l] - 1
                 ELSE live[l]]
           /\ hist' = [hist EXCEPT
                !.handling = [kind |-> "none"],
                !.stopped = @ \cup {l \in Links : running_processes[l].present /\ l \notin desired_links},
                !.started = @ \cup new_links,
                !.startedRetired = @ \cup (new_links \cap hist.retired)]
    /\ spc' = after_pass(reload)
    /\ UNCHANGED <<queue, desired_links, dead_links, reload>>
    /\ UNCHANGED <<fs, db, clock, posts, gone, pc, md5_hashes, throttle, items, idx, polls>>
    /\ UNCHANGED <<dvars, evars, nvars>>

\* a worker process ends
WorkerDies ==
    /\ \E l \in Links, e \in Endings, b \in Platforms :
         /\ running_processes[l].alive
         /\ running_processes' = [running_processes EXCEPT ![l] =
                [present |-> TRUE, alive |-> FALSE,
                 exitcode |-> exitcode_read(RaisedStatus(e), b), ending |-> e]]
         /\ live' = [live EXCEPT ![l] = @ - 1]
    /\ UNCHANGED <<queue, desired_links, dead_links, spc, reload>>
    /\ UNCHANGED <<fs, db, clock, posts, gone, pc, md5_hashes, throttle, items, idx, polls, hist>>
    /\ UNCHANGED <<dvars, evars, nvars>>

\* the user edits the queue file, which keeps at most max_lines lines: adds a
\* line, removes one, sets or clears the '-' prefix of one
EditQueueUpTo(max_lines) ==
    /\ hist.edits < MaxEdits
    /\ \E q \in {Append(queue, ln) : ln \in (IF Len(queue) < max_lines THEN Lines ELSE {})}
               \cup {SubSeq(queue, 1, i - 1) \o SubSeq(queue, i + 1, Len(queue)) : i \in 1..Len(queue)}
               \cup {[queue EXCEPT ![i].dis = ~@] : i \in 1..Len(queue)} :
         /\ queue' = q
         /\ hist' = [hist EXCEPT !.edits = @ + 1, !.retired = @ \ load_queue(q)]
    /\ UNCHANGED <<running_processes, desired_links, dead_links, spc, live, reload>>
    /\ UNCHANGED <<fs, db, clock, posts, gone, pc, md5_hashes, throttle, items, idx, polls>>
    /\ UNCHANGED <<dvars, evars, nvars>>

EditQueue == EditQueueUpTo(MaxLines)

\* any queue file, no worker yet
InitSup ==
    /\ fs = [p \in Paths |-> NoFile]
    /\ db = [h \in Hashes |-> NoRec]
    /\ WatchersInit
    /\ EnvIdle
    /\ DedupeIdle
    /\ queue \in UNION {[1..n -> Lines] : n \in 0..MaxLines}
    /\ running_processes = [l \in Links |-> NoProc]
    /\ desired_links = {}
    /\ dead_links = {}
    /\ spc = "load"
    /\ live = [l \in Links |-> 0]
    /\ reload = TRUE

NextSup ==
    \/ LoadQueue
    \/ HandleDeadProcess
    \/ StartAndStop
    \/ WorkerDies
    \/ EditQueue
    \/ \E t \in {ThreadOfLink(l) : l \in Links} : DeleteThread(t)

SpecSup == InitSup /\ [][NextSup]_vars

\* lines of the queue file in the specification with edits
MaxLinesEdit == 1

\* The supervisor over a queue file that starts with one active line, a thread
\* URL without fragment, and is edited while the supervisor runs; the threads
\* stay on the server.
InitSupEdit ==
    /\ InitSup
    /\ Len(queue) = 1
    /\ ~queue[1].dis
    /\ queue[1].link.fragment = ""

NextSupEdit ==
    \/ LoadQueue
    \/ HandleDeadProcess
    \/ StartAndStop
    \/ WorkerDies
    \/ EditQueueUpTo(MaxLinesEdit)

SpecSupEdit == InitSupEdit /\ [][NextSupEdit]_vars

\* The supervisor over a queue file nobody edits, while workers end and threads
\* are deleted.
NextSupDead ==
    \/ LoadQueue
    \/ HandleDeadProcess
    \/ StartAndStop
    \/ WorkerDies
    \/ \E t \in {ThreadOfLink(l) : l \in Links} : DeleteThread(t)

SpecSupDead == InitSup /\ [][NextSupDead]_vars

\* a wait that ends whatever the workers do
all_joined_NoWait(procs) == TRUE

\* `for process in running_processes.values(): process.join()` has returned
\* from every join: each registered process has exited
all_joined(procs) == \A l \in Links : procs[l].present => ~procs[l].alive

\* run() without reload, after its pass: the joins, then the break out of the
\* loop and the return
JoinAll ==
    /\ spc = "join"
    /\ all_joined(running_processes)
    /\ spc' = "returned"
    /\ UNCHANGED <<queue, running_processes, desired_links, dead_links, live, reload>>
    /\ UNCHANGED <<fs, db, clock, posts, gone, pc, md5_hashes, throttle, items, idx, polls, hist>>
    /\ UNCHANGED <<dvars, evars, nvars>>

\* The supervisor started without reload over any queue file.
InitSupOnce ==
    /\ fs = [p \in Paths |-> NoFile]
    /\ db = [h \in Hashes |-> NoRec]
    /\ WatchersInit
    /\ EnvIdle
    /\ DedupeIdle
    /\ queue \in UNION {[1..n -> Lines] : n \in 0..MaxLines}
    /\ running_processes = [l \in Links |-> NoProc]
    /\ desired_links = {}
    /\ dead_links = {}
    /\ spc = "load"
    /\ live = [l \in Links |-> 0]
    /\ reload = FALSE

NextSupOnce ==
    \/ LoadQueue
    \/ StartAndStop
    \/ WorkerDies
    \/ JoinAll

\* the supervisor's own steps are taken when they can be; a worker may run
\* for ever
SpecSupOnce ==
    /\ InitSupOnce
    /\ [][NextSupOnce]_vars
    /\ WF_vars(LoadQueue)
    /\ WF_vars(StartAndStop)
    /\ WF_vars(JoinAll)

-----------------------------------------------------------------------------
(* Reconciliation: one watcher started MaxRuns times over a directory and an  *)
(* index in any state, nothing else running                                   *)

\* the thread's directory and the directory of another thread
ReconDirs == {"t0", "t1"}

\* any file tree under these directories
ReconTrees ==
    {f \in [Paths -> {NoFile} \cup [hash : Hashes, mtime : {0}]] :
        \A p \in Paths : p[1] \notin ReconDirs => f[p] = NoFile}

\* any index over these directories, its rows written by watchers
ReconRows == {[path |-> p, thread |-> p[1], mtime |-> -1, size |-> -1] : p \in ReconDirs \X Names}

InitRecon ==
    /\ fs \in ReconTrees
    /\ db \in [Hashes -> {NoRec} \cup ReconRows]
    /\ WatchersInit
    /\ EnvIdle
    /\ DedupeIdle
    /\ SupervisorIdle

NextRecon ==
    \/ Startup("w1")
    \/ Restart("w1")

SpecRecon == InitRecon /\ [][NextRecon]_vars

-----------------------------------------------------------------------------
(* The hash index alone: any sequence of HashDB calls, each made while the    *)
(* store is in any condition                                                  *)

\* the paths the calls name
IndexPaths == {<<"t1", "a">>, <<"t2", "a">>}

\* the modification times the calls pass
IndexMtimes == {0, IntMtime(MaxMtime)}

ReadOps == {"get_path", "has_hash", "get_file_metadata", "get_thread_hashes", "count_hashes"}
WriteOps == {"insert", "upsert", "delete_file_metadata", "init"}

\* HashDB.count_hashes: SELECT COUNT(*)
count_hashes(dbv) == Cardinality({h \in Hashes : dbv[h] # NoRec})

\* what a method returns from its `except Exception` branch
IndexDefault(kind) ==
    CASE kind = "get_path" -> <<"none", "none">>
      [] kind = "has_hash" -> FALSE
      [] kind = "get_file_metadata" -> {}
      [] kind = "get_thread_hashes" -> {}
      [] kind = "count_hashes" -> 0
      [] OTHER -> "None"

\* a method without its try/except
Caught_Propagates(exc, value, default) ==
    [raised |-> exc, value |-> IF exc = "none" THEN value ELSE default]

\* the try/except Exception every HashDB method wraps its body in: what the
\* caller sees
Caught(exc, value, default) ==
    [raised |-> "none", value |-> IF exc = "none" THEN value ELSE default]

\* get_path, has_hash, get_file_metadata, get_thread_hashes or count_hashes
IndexRead ==
    /\ \E kind \in ReadOps, md5 \in Hashes, path \in IndexPaths, store \in StoreStates :
        \E journal \in (IF store = "locked" THEN JournalModes ELSE {"wal"}) :
         LET exc == get_connection(store, journal, FALSE)
             value == CASE kind = "get_path" -> get_path(db, md5)
                        [] kind = "has_hash" -> has_hash(db, md5)
                        [] kind = "get_file_metadata" -> get_file_metadata(db, path)
                        [] kind = "get_thread_hashes" -> get_thread_hashes(db, path[1])
                        [] kind = "count_hashes" -> count_hashes(db)
             r == Caught(exc, value, IndexDefault(kind))
         IN  hist' = [hist EXCEPT !.op =
                        [kind |-> kind, md5 |-> md5, path |-> path, store |-> store,
                         failed |-> exc # "none", raised |-> r.raised, value |-> r.value,
                         pre |-> db]]
    /\ UNCHANGED <<fs, db, clock, posts, gone, pc, md5_hashes, throttle, items, idx, polls>>
    /\ UNCHANGED <<dvars, svars, evars, nvars>>

\* insert, upsert, delete_file_metadata or init
IndexWrite ==
    /\ \E kind \in WriteOps, md5 \in Hashes, path \in IndexPaths, mtime \in IndexMtimes,
          store \in StoreStates :
         LET exc == get_connection(store, "wal", TRUE)
             after == CASE kind = "insert" -> insert(db, md5, path, path[1], mtime, SizeOf(md5))
                        [] kind = "upsert" -> upsert(db, md5, path, path[1], mtime, SizeOf(md5))
                        [] kind = "delete_file_metadata" -> delete_file_metadata(db, path)
                        [] kind = "init" -> db
             r == Caught(exc, "None", IndexDefault(kind))
         IN  /\ db' = IF exc = "none" THEN after ELSE db
             /\ hist' = [hist EXCEPT
                  !.op = [kind |-> kind, md5 |-> md5, path |-> path, store |-> store,
                          failed |-> exc # "none", raised |-> r.raised, value |-> r.value,
                          pre |-> db],
                  !.by = [h \in Hashes |->
                            IF db'[h] = NoRec THEN "none"
                            ELSE IF db'[h] = db[h] /\ ~(kind = "upsert" /\ h = md5 /\ exc = "none") THEN @[h]
                            ELSE kind]]
    /\ UNCHANGED <<fs, clock, posts, gone, pc, md5_hashes, throttle, items, idx, polls>>
    /\ UNCHANGED <<dvars, svars, evars, nvars>>

\* a new, empty index
InitIndex ==
    /\ fs = [p \in Paths |-> NoFile]
    /\ db = [h \in Hashes |-> NoRec]
    /\ WatchersInit
    /\ EnvIdle
    /\ DedupeIdle
    /\ SupervisorIdle

NextIndex ==
    \/ IndexRead
    \/ IndexWrite

SpecIndex == InitIndex /\ [][NextIndex]_vars

-----------------------------------------------------------------------------
(* A watcher and a dedupe run at the same time on one storage tree and one    *)
(* index                                                                      *)

\* some file of the tree has the content
HasFile(fsv, h) == \E p \in Paths : fsv[p] # NoFile /\ fsv[p].hash = h

\* the files of the watched directory, written in either of two seconds
MixPaths == {<<"t1", "a">>, <<"t1", "b">>}

MixTrees ==
    {f \in [Paths -> {NoFile} \cup [hash : Hashes, mtime : {0, MaxMtime}]] :
        \A p \in Paths : p \notin MixPaths => f[p] = NoFile}

\* an index true to the tree: every row names a file that holds the row's
\* content; the row was written by a watcher or by a dedupe run, which may
\* have seen the file with another modification time
MixRows(f, h) ==
    {r \in DedupeRows(h) : Exists(f, r.path) /\ f[r.path].hash = h}

\* the thread has one post, whose attachment is not in the tree under its
\* server name
MixPosts == <<[name |-> "a", tim |-> "b", hash |-> "h2"]>>

InitMix ==
    /\ fs \in MixTrees
    /\ db \in {d \in [Hashes -> {NoRec} \cup DedupeRows("h1") \cup DedupeRows("h2")] :
                  \A h \in Hashes : d[h] = NoRec \/ d[h] \in MixRows(fs, h)}
    /\ clock = 0
    /\ posts = [t \in Threads |-> IF t = "t1" THEN MixPosts ELSE <<>>]
    /\ gone = [t \in Threads |-> FALSE]
    /\ pc = [w \in Watchers |-> "init"]
    /\ md5_hashes = [w \in Watchers |-> {}]
    /\ throttle = [w \in Watchers |-> DEFAULT_THROTTLE]
    /\ items = [w \in Watchers |-> <<>>]
    /\ idx = [w \in Watchers |-> 1]
    /\ polls = 0
    /\ hist = HistInit
    /\ EnvIdle
    /\ DedupeIdle
    /\ SupervisorIdle

NextMix ==
    \/ Startup("w1")
    \/ Poll("w1")
    \/ Check("w1")
    \/ Download("w1")
    \/ DedupeStart
    \/ ScanFile
    \/ RemoveDuplicates

SpecMix == InitMix /\ [][NextMix]_vars

-----------------------------------------------------------------------------
(* Two dedupe runs, one after the other, nothing else running                 *)

\* run() is called again once the first run has returned: the tree and the
\* index are as the first run left them
DedupeAgain ==
    /\ dd_pc = "done"
    /\ ~hist.first.done
    /\ dd_pc' = "scan"
    /\ walk' = WalkOrder
    /\ md5_map' = <<>>
    /\ hist' = [hist EXCEPT !.first = [done |-> TRUE, fs |-> fs, db |-> db,
                                       failed |-> hist.dd.failed]]
    /\ UNCHANGED <<fs, db, clock, posts, gone, pc, md5_hashes, throttle, items, idx, polls>>
    /\ UNCHANGED <<svars, evars, nvars>>

\* any files at the walked paths, written in either of two seconds
TwiceTrees ==
    {f \in [Paths -> {NoFile} \cup [hash : Hashes, mtime : {0, MaxMtime}]] :
        \A p \in Paths : p \notin DedupePaths => f[p] = NoFile}

\* any index with at most one row for a path
InitTwice ==
    /\ fs \in TwiceTrees
    /\ db \in {d \in [Hashes -> {NoRec} \cup DedupeRows("h1") \cup DedupeRows("h2")] :
                  /\ \A h \in Hashes : d[h] = NoRec \/ d[h] \in DedupeRows(h)
                  /\ \A p \in DedupePaths : Cardinality(get_file_metadata(d, p)) <= 1}
    /\ WatchersInit
    /\ EnvIdle
    /\ DedupeIdle
    /\ SupervisorIdle

NextTwice ==
    \/ DedupeStart
    \/ ScanFile
    \/ RemoveDuplicates
    \/ DedupeAgain

SpecTwice == InitTwice /\ [][NextTwice]_vars

-----------------------------------------------------------------------------
(* The scraping fallback of _fetch_thread_data, run by two watcher processes  *)
(* on the same page                                                           *)

\* the hosts the file regex accepts (i.4cdn.org, is2.4chan.org, ...)
Hosts == {"i.4cdn.org", "is2.4chan.org"}

\* a match of the regex: the tuple (url, file name), the url made of the host
\* and the file name
Matches == [host : Hosts, name : Names]

\* matches in a page
MaxMatches == 3

\* list(set(matches)): the distinct tuples, in the iteration order of a set of
\* tuples of strings, which follows the string hashes of the process
\* (randomised per process) and not the page
SetOrders(S) ==
    {s \in [1..Cardinality(S) -> S] : \A i, j \in 1..Cardinality(S) : s[i] = s[j] => i = j}

\* sorted(items, key=lambda tup: tup[1]) over one such order
ScrapeEntries(order) == SortByName(order)

\* a process fetches the page and builds its entry list
Scrape(r) ==
    /\ ~scraped[r].done
    /\ \E order \in SetOrders({page[i] : i \in 1..Len(page)}) :
         scraped' = [scraped EXCEPT ![r] = [done |-> TRUE, items |-> ScrapeEntries(order)]]
    /\ UNCHANGED <<page, qfile, dl>>
    /\ UNCHANGED <<wvars, dvars, svars, evars>>

\* any page
InitScrape ==
    /\ fs = [p \in Paths |-> NoFile]
    /\ db = [h \in Hashes |-> NoRec]
    /\ WatchersInit
    /\ dbfile = "ok"
    /\ legacy = {}
    /\ page \in UNION {[1..n -> Matches] : n \in 0..MaxMatches}
    /\ scraped = [r \in Processes |-> NotScraped]
    /\ QueueFileIdle
    /\ DedupeIdle
    /\ SupervisorIdle

NextScrape == \E r \in Processes : Scrape(r)

SpecScrape == InitScrape /\ [][NextScrape]_vars

-----------------------------------------------------------------------------
(* _disable_link on the text of the queue file.  Here `queue` holds the lines *)
(* as text: the characters before the body, and the body                      *)

\* lines in the file
MaxRawLines == 2

\* what a line starts with: '-' and blanks, in any order
Leads == UNION {[1..n -> {"-", " "}] : n \in 0..2}

\* a line: a thread URL or other text (NoLink), after its leading characters
RawLines == [lead : Leads, body : Links \cup {NoLink}]

\* str.strip() on the leading characters: the blanks at the front are dropped
RECURSIVE LStrip(_)
LStrip(lead) ==
    IF lead # <<>> /\ Head(lead) = " " THEN LStrip(Tail(lead)) ELSE lead

\* line.startswith('-')
StartsWithDash(line) == line.lead # <<>> /\ Head(line.lead) = "-"

\* a test on the URL alone
LineMatches_Body(line, link) == line.body = link

\* `stripped == link and not line.startswith('-')`
LineMatches(line, link) ==
    /\ LStrip(line.lead) = <<>> /\ line.body = link
    /\ ~StartsWithDash(line)

\* '-' + line
Prefixed(line) == [line EXCEPT !.lead = <<"-">> \o @]

\* new_lines
new_lines(lines, link) ==
    [i \in 1..Len(lines) |-> IF LineMatches(lines[i], link) THEN Prefixed(lines[i]) ELSE lines[i]]

\* _disable_link, first half: open the file and readlines(); a missing file
\* raises FileNotFoundError, an IOError, which is logged
DisableRead ==
    /\ dl.pc \in {"idle", "done"}
    /\ \E link \in Links :
         dl' = IF qfile = "missing"
               THEN [pc |-> "done", link |-> link, lines |-> <<>>, wrote |-> FALSE]
               ELSE [pc |-> "read", link |-> link, lines |-> queue, wrote |-> FALSE]
    /\ UNCHANGED <<page, scraped, qfile>>
    /\ UNCHANGED <<wvars, dvars, svars, evars>>

\* _disable_link, second half: the loop over the lines read and, if a line
\* was prefixed, the write of all of them
DisableWrite ==
    /\ dl.pc = "read"
    /\ LET disabled == \E i \in 1..Len(dl.lines) : LineMatches(dl.lines[i], dl.link)
       IN  /\ queue' = IF disabled THEN new_lines(dl.lines, dl.link) ELSE queue
           /\ dl' = [dl EXCEPT !.pc = "done", !.wrote = disabled]
    /\ UNCHANGED <<running_processes, desired_links, dead_links, spc, live, reload>>
    /\ UNCHANGED <<page, scraped, qfile>>
    /\ UNCHANGED <<wvars, dvars, evars>>

\* any file of at most MaxRawLines lines
InitDisable ==
    /\ fs = [p \in Paths |-> NoFile]
    /\ db = [h \in Hashes |-> NoRec]
    /\ WatchersInit
    /\ EnvIdle
    /\ DedupeIdle
    /\ queue \in UNION {[1..n -> RawLines] : n \in 0..MaxRawLines}
    /\ running_processes = [l \in Links |-> NoProc]
    /\ desired_links = {}
    /\ dead_links = {}
    /\ spc = "load"
    /\ live = [l \in Links |-> 0]
    /\ reload = TRUE

NextDisable ==
    \/ DisableRead
    \/ DisableWrite

SpecDisable == InitDisable /\ [][NextDisable]_vars

\* somebody else writes the queue file: a line is added, or a line is
\* replaced by other text
ExternalEdit ==
    /\ hist.edits < MaxEdits
    /\ \E ln \in {r \in RawLines : Len(r.lead) <= 1} :
         \E q \in (IF Len(queue) < MaxRawLines THEN {Append(queue, ln)} ELSE {})
                    \cup {[queue EXCEPT ![i] = ln] : i \in 1..Len(queue)} :
            /\ q # queue
            /\ queue' = q
    /\ hist' = [hist EXCEPT !.edits = @ + 1]
    /\ UNCHANGED <<running_processes, desired_links, dead_links, spc, live, reload>>
    /\ UNCHANGED <<fs, db, clock, posts, gone, pc, md5_hashes, throttle, items, idx, polls>>
    /\ UNCHANGED <<dvars, evars, nvars>>

\* a file with one line, an active thread URL
InitDisableEdit ==
    /\ InitDisable
    /\ Len(queue) = 1
    /\ queue[1].lead = <<>>
    /\ queue[1].body \in Links

NextDisableEdit ==
    \/ DisableRead
    \/ DisableWrite
    \/ ExternalEdit

SpecDisableEdit == InitDisableEdit /\ [][NextDisableEdit]_vars

-----------------------------------------------------------------------------
(* The supervisor in either mode, over a queue file nobody edits              *)

InitSupMode ==
    /\ fs = [p \in Paths |-> NoFile]
    /\ db = [h \in Hashes |-> NoRec]
    /\ WatchersInit
    /\ EnvIdle
    /\ DedupeIdle
    /\ queue \in UNION {[1..n -> Lines] : n \in 0..MaxLines}
    /\ running_processes = [l \in Links |-> NoProc]
    /\ desired_links = {}
    /\ dead_links = {}
    /\ spc = "load"
    /\ live = [l \in Links |-> 0]
    /\ reload \in BOOLEAN

NextSupMode ==
    \/ LoadQueue
    \/ HandleDeadProcess
    \/ StartAndStop
    \/ WorkerDies
    \/ JoinAll
    \/ \E t \in {ThreadOfLink(l) : l \in Links} : DeleteThread(t)

SpecSupMode == InitSupMode /\ [][NextSupMode]_vars

-----------------------------------------------------------------------------
(* The supervisor while the queue file is removed and put back                *)

\* the queue file is deleted
RemoveQueueFile ==
    /\ qfile = "present"
    /\ hist.edits < MaxEdits
    /\ qfile' = "missing"
    /\ queue' = <<>>
    /\ hist' = [hist EXCEPT !.edits = @ + 1]
    /\ UNCHANGED <<running_processes, desired_links, dead_links, spc, live, reload>>
    /\ UNCHANGED <<fs, db, clock, posts, gone, pc, md5_hashes, throttle, items, idx, polls>>
    /\ UNCHANGED <<page, scraped, dl>>
    /\ UNCHANGED <<dvars, evars>>

\* a queue file is written where there was none: one line, active
RestoreQueueFile ==
    /\ qfile = "missing"
    /\ hist.edits < MaxEdits
    /\ qfile' = "present"
    /\ \E l \in Links : queue' = <<[link |-> l, dis |-> FALSE]>>
    /\ hist' = [hist EXCEPT !.edits = @ + 1]
    /\ UNCHANGED <<running_processes, desired_links, dead_links, spc, live, reload>>
    /\ UNCHANGED <<fs, db, clock, posts, gone, pc, md5_hashes, throttle, items, idx, polls>>
    /\ UNCHANGED <<page, scraped, dl>>
    /\ UNCHANGED <<dvars, evars>>

NextSupMissing ==
    \/ LoadQueue
    \/ HandleDeadProcess
    \/ StartAndStop
    \/ WorkerDies
    \/ RemoveQueueFile
    \/ RestoreQueueFile

\* the supervisor in reload mode over a file that starts with one active line
SpecSupMissing == InitSupEdit /\ [][NextSupMissing]_vars

-----------------------------------------------------------------------------
(* The claims *)

\* C1: each content hash is written to the primary storage tree at most once,
\* whatever watcher writes it and whatever thread it watches.
C1_HashSavedAtMostOnce == \A h \in Hashes : hist.saves[h] <= 1

C3_OldestSurvives ==
    dd_pc = "done" =>
        \A h \in Hashes :
            LET group == {p \in Paths : hist.fs0[p].hash = h}
            IN  group # {} =>
                  \E p \in group :
                      /\ \A q \in Paths : (Exists(fs, q) /\ fs[q].hash = h) <=> q = p
                      /\ \A q \in group : hist.fs0[p].mtime <= hist.fs0[q].mtime
                      /\ get_path(db, h) = p

\* C4: an entry listed with a content hash that was in neither the index nor the
\* per-thread set, with no file at its destination, and whose bytes were
\* fetched, is afterwards on disk at the destination, in the index under that
\* path and the watcher's thread id, and in the per-thread set.
C4_NovelEntrySavedAndIndexed ==
    \A w \in Watchers :
        hist.novel[w] # 0 =>
            LET e == items[w][hist.novel[w]]
                p == DetermineFilePath(w, e)
            IN  /\ Exists(fs, p) /\ fs[p].hash = e.hash
                /\ get_path(db, e.hash) = p
                /\ db[e.hash].thread = ThreadOf(w)
                /\ e.hash \in md5_hashes[w]

C7_NoStartWhileDisabled ==
    /\ hist.started \cap hist.disabledAtLoad = {}
    /\ spc = "check" => desired_links \cap hist.disabledAtLoad = {}

\* C8: a link the supervisor disabled because its worker ended Gone or its
\* probe was answered NotFound gets no worker again (unless the user makes a
\* line of it active again).
C8_NoStartAfterRetire == hist.startedRetired = {}

\* C9: a watcher whose thread fetch was answered NotFound (the thread is
\* deleted, so the probe is answered NotFound too) ends in the Gone state.
C9_GoneAfterNotFound == \A w \in Watchers : hist.lastFetch[w] = 404 => pc[w] = "gone"

\* C10: after N RateLimited answers to its thread fetch a watcher's throttle is
\* the initial value plus N times the backoff increment, and it has not ended.
C10_BackoffAccumulates ==
    \A w \in Watchers :
        /\ throttle[w] = DEFAULT_THROTTLE + hist.n429[w] * DEFAULT_BACKOFF
        /\ hist.n429[w] > 0 => pc[w] \notin {"gone", "stopped", "crashed"}

\* C11: in every step the throttle of a watcher is at least what it was before
\* the step, unless the step starts a new watcher process (a new lifetime).
C11_ThrottleNeverDecreases ==
    [][\A w \in Watchers :
          (pc[w] # "init" /\ pc'[w] = "init") \/ throttle'[w] >= throttle[w]]_vars

\* a watcher has been rate limited, has polled again and has saved a file
C11_Witness ==
    \E w \in Watchers :
        /\ hist.n429[w] > 0 /\ polls >= 2
        /\ \E n \in Names : Exists(fs, <<DirOf(w), n>>)
        /\ throttle[w] >= DEFAULT_THROTTLE

\* C12: a dead worker that ended Gone shows the supervisor the exit code 404,
\* and a dead worker that ended otherwise shows it another code than a Gone
\* worker does.
C12_GoneReadsAs404 ==
    \A l \in Links :
        LET p == running_processes[l]
        IN  (p.present /\ ~p.alive) =>
                /\ p.ending = "gone" => p.exitcode = 404
                /\ p.ending # "gone" =>
                       \A b \in Platforms : p.exitcode # exitcode_read(RaisedStatus("gone"), b)

C14_OneWorkerPerDirectory ==
    \A l1, l2 \in Links :
        (running_processes[l1].alive /\ running_processes[l2].alive
           /\ ThreadOfLink(l1) = ThreadOfLink(l2)) => l1 = l2

\* C15: an insert on a hash that has a row leaves the table as it was, so that
\* of two inserts of one hash the row of the one that committed first stays;
\* an insert that commits on a hash without a row writes the row it was given.
C15_InsertFirstWriterWins ==
    hist.op.kind = "insert" =>
        /\ hist.op.pre[hist.op.md5] # NoRec => db = hist.op.pre
        /\ (hist.op.pre[hist.op.md5] = NoRec /\ ~hist.op.failed) =>
               /\ get_path(db, hist.op.md5) = hist.op.path
               /\ \A h \in Hashes \ {hist.op.md5} : db[h] = hist.op.pre[h]

\* a second insert of a hash, with another path, has committed after the
\* insert that wrote the hash's row
C15_Witness ==
    /\ hist.op.kind = "insert"
    /\ ~hist.op.failed
    /\ hist.op.pre[hist.op.md5] # NoRec
    /\ hist.by[hist.op.md5] = "insert"
    /\ hist.op.path # hist.op.pre[hist.op.md5].path
    /\ get_path(db, hist.op.md5) = hist.op.pre[hist.op.md5].path

\* C16: after an upsert that succeeded, get_path of the hash is the path given
\* and the rows of the other hashes are what they were.
C16_UpsertReplaces ==
    (hist.op.kind = "upsert" /\ ~hist.op.failed) =>
        /\ get_path(db, hist.op.md5) = hist.op.path
        /\ \A h \in Hashes \ {hist.op.md5} : db[h] = hist.op.pre[h]

\* an upsert has replaced the row of a hash that pointed to another path, while
\* another hash had a row
C16_Witness ==
    /\ hist.op.kind = "upsert"
    /\ ~hist.op.failed
    /\ hist.op.pre[hist.op.md5] # NoRec
    /\ hist.op.pre[hist.op.md5].path # hist.op.path
    /\ \E h \in Hashes \ {hist.op.md5} : db[h] # NoRec

\* C17 as stated: whenever the store cannot be opened or is locked, a call
\* raises nothing, a read returns its empty value and the table is unchanged.
C17_EmptyWheneverLocked ==
    (hist.op.kind # "none" /\ hist.op.store # "ok") =>
        /\ hist.op.raised = "none"
        /\ hist.op.value = IndexDefault(hist.op.kind)
        /\ db = hist.op.pre

\* C17: no call raises; a call that fails because it cannot open the store or
\* cannot get the lock it needs returns its empty value (none, false, the
\* empty set, 0) and leaves the table unchanged.
C17_FailureNotPropagated ==
    hist.op.kind # "none" =>
        /\ hist.op.raised = "none"
        /\ hist.op.failed =>
               /\ hist.op.value = IndexDefault(hist.op.kind)
               /\ db = hist.op.pre

\* a read and a write have failed on an index that holds the row they name
C17_Witness ==
    /\ hist.op.kind \in {"get_path", "upsert"}
    /\ hist.op.failed
    /\ hist.op.pre[hist.op.md5] # NoRec

\* C18: the failure a watcher's last fetch of the thread raised is NotFound
\* for status 404, RateLimited for status 429 and Transient for another
\* failure status.
C18_ThreeFailureKinds ==
    \A w \in Watchers :
        LET s == hist.lastFetch[w]
        IN  /\ s = 404 => FailureKind(FetchRaises(s)) = "NotFound"
            /\ s = 429 => FailureKind(FetchRaises(s)) = "RateLimited"
            /\ s = 500 => FailureKind(FetchRaises(s)) = "Transient"

\* C19: a handling of a dead worker that reaches the restart loop (the exit
\* code read is not 404, the probe is not answered NotFound) makes at most 3
\* attempts; it stops at the first attempt whose worker is alive and leaves
\* that worker registered for the link; when no attempt gives a live worker
\* it makes all 3, every queue line of the link is disabled and the link has
\* no entry in running_processes.
C19_RestartAttempts ==
    [][(spc = "check" /\ dead_links' # dead_links /\ ~hist'.handling.retire) =>
         LET hh == hist'.handling
         IN  /\ hh.attempts \in 1..3
             /\ Len(hh.is_alive) = hh.attempts
             /\ hh.restarted <=> \E i \in 1..hh.attempts : hh.is_alive[i]
             /\ hh.restarted =>
                    /\ hh.is_alive[hh.attempts]
                    /\ \A i \in 1..(hh.attempts - 1) : ~hh.is_alive[i]
                    /\ running_processes'[hh.link].alive
                    /\ live'[hh.link] = 1
             /\ ~hh.restarted =>
                    /\ hh.attempts = 3
                    /\ ~running_processes'[hh.link].present
                    /\ live'[hh.link] = 0
                    /\ \A i \in 1..Len(queue') : queue'[i].link = hh.link => queue'[i].dis]_vars

\* a handling has restarted the worker at its second attempt
C19_Witness ==
    /\ hist.handling.kind = "handled"
    /\ ~hist.handling.retire
    /\ hist.handling.restarted
    /\ hist.handling.attempts = 2
    /\ running_processes[hist.handling.link].alive

\* C20: without reload the supervisor has made exactly one pass when it
\* returns and no registered worker is alive then; it makes no second pass;
\* and once every registered worker has exited it returns.
C20_ReturnsAfterWorkers ==
    /\ [](hist.passes <= 1)
    /\ [](spc = "returned" =>
            /\ hist.passes = 1
            /\ \A l \in Links : ~running_processes[l].alive /\ live[l] = 0)
    /\ (spc = "join" /\ \A l \in Links : ~running_processes[l].alive) ~> (spc = "returned")

\* the supervisor has returned after its two workers had exited
C20_Witness ==
    /\ spc = "returned"
    /\ \A l \in Links : running_processes[l].present /\ ~running_processes[l].alive

\* C21: a failure while one entry of a poll is downloaded or processed is
\* contained.  Every step that handles an entry's download leaves the watcher
\* in the entry loop: at the next entry of the same list if there is one, else
\* back at the poll; and when the fetch of the bytes failed, the entry is
\* skipped: no file, no index row and no member of the per-thread set changes.
C21_EntryFailureContained ==
    [][\A w \in Watchers :
         (pc[w] = "download" /\ idx'[w] = idx[w] + 1)
         => /\ pc'[w] = NextPc(w)
            /\ (hist'.outcome[w] = "failed")
               => (fs' = fs /\ db' = db /\ md5_hashes' = md5_hashes)]_vars

\* an entry of the poll failed, and a later entry of the same poll was
\* downloaded and saved
C21_Witness ==
    /\ hist.curFail["w1"]
    /\ hist.outcome["w1"] = "saved"
    /\ idx["w1"] = 3
    /\ pc["w1"] = "poll"

\* C23: once a watcher has run its initialization over a thread directory that
\* listed at least one file, it is in the poll loop, and every file left in
\* the directory has its hash in the index and in the watcher's per-thread set.
C23_InitializationCompletes ==
    \A w \in Watchers :
        (hist.runs[w] >= 1 /\ pc[w] # "init" /\ hist.listed[w] > 0)
        => /\ pc[w] = "poll"
           /\ \A n \in Names :
                Exists(fs, <<DirOf(w), n>>)
                => /\ has_hash(db, fs[<<DirOf(w), n>>].hash)
                   /\ fs[<<DirOf(w), n>>].hash \in md5_hashes[w]

\* C24: the step that handles an entry's download is followed by a sleep of
\* the current throttle interval exactly when it saved a new file: the clock
\* moves on by the throttle after a save, and stays after an entry that was
\* skipped as a duplicate or that failed.
C24_SleepExactlyAfterSave ==
    [][\A w \in Watchers :
         (pc[w] = "download" /\ idx'[w] = idx[w] + 1)
         => ((hist'.outcome[w] = "saved") <=> (clock' = clock + throttle[w]))]_vars

C26_ExistingFileUntouched ==
    [][\A w \in Watchers :
         (/\ pc[w] = "check"
          /\ pc'[w] # pc[w] \/ idx'[w] # idx[w]
          /\ Exists(fs, DetermineFilePath(w, items[w][idx[w]])))
         => /\ pc'[w] # "download"
            /\ idx'[w] = idx[w] + 1
            /\ ~hist'.access[w]
            /\ fs' = fs /\ db' = db /\ md5_hashes' = md5_hashes]_vars

\* an entry that carries an API md5 was skipped because its file exists
C26_Witness ==
    /\ hist.outcome["w1"] = "exists"
    /\ idx["w1"] > 1
    /\ items["w1"][idx["w1"] - 1].api
    /\ Exists(fs, DetermineFilePath("w1", items["w1"][idx["w1"] - 1]))

C28_IndexMapsKeptPaths ==
    (dd_pc = "done" /\ hist.dd.ran) =>
        \A i \in DOMAIN md5_map :
            LET h == md5_map[i].md5
                kept_path == SortByMtime(md5_map[i].paths)[1][1]
            IN  /\ get_path(db, h) = kept_path
                /\ h \in hist.dd.written => get_path(hist.dd.db0, h) # kept_path

\* a pass that wrote the mapping of a hash with a single path, and left the
\* mapping of another hash, which was right already, alone
C28_Witness ==
    /\ dd_pc = "done" /\ hist.dd.ran
    /\ \E i, j \in DOMAIN md5_map :
         /\ Len(md5_map[i].paths) = 1
         /\ md5_map[i].md5 \in hist.dd.written
         /\ md5_map[j].md5 \notin hist.dd.written
         /\ get_path(hist.dd.db0, md5_map[j].md5) = SortByMtime(md5_map[j].paths)[1][1]

\* C29: a pass in which the removal of a duplicate failed.  Every other
\* duplicate, of the same hash and of the other hashes, is gone; deleted_count
\* is the number of files removed, the failed ones not among them; every group
\* is counted as kept; and the index maps each hash to the file kept for it,
\* which is a file with the earliest modification time of its group.
C29_FailedRemovalContained ==
    (dd_pc = "done" /\ hist.dd.ran /\ hist.dd.failed # {}) =>
        /\ hist.dd.kept_count = Len(md5_map)
        /\ hist.dd.deleted_count =
             Cardinality({p \in Paths : Exists(hist.fs0, p) /\ ~Exists(fs, p)})
        /\ \A p \in hist.dd.failed : Exists(fs, p)
        /\ \A i \in DOMAIN md5_map :
             LET paths_sorted == SortByMtime(md5_map[i].paths)
                 kept_path == paths_sorted[1][1]
             IN  /\ \A j \in 2..Len(paths_sorted) :
                       paths_sorted[j][1] \notin hist.dd.failed => ~Exists(fs, paths_sorted[j][1])
                 /\ Exists(fs, kept_path)
                 /\ get_path(db, md5_map[i].md5) = kept_path
                 /\ \A j \in 1..Len(paths_sorted) :
                       hist.fs0[kept_path].mtime <= hist.fs0[paths_sorted[j][1]].mtime

\* C30: after a complete Deduplicator run no '.hashes.txt' is left under the
\* tree, apart from those whose removal failed, whatever else the tree holds.
C30_NoLegacyFileRemains ==
    dd_pc = "done" => legacy \subseteq hist.dd.stuck

\* C22: a failed index lookup in the re-check of a downloaded file is not
\* taken for "hash absent".  When the entry's download is handled while the
\* index cannot be read, and the index holds a row for the hash of the bytes,
\* the watcher does not save the file as a new one.
C22_FailedLookupNotAbsent ==
    [][\A w \in Watchers :
         (/\ pc[w] = "download" /\ idx'[w] = idx[w] + 1
          /\ get_connection(dbfile, "wal", FALSE) # "none"
          /\ db[items[w][idx[w]].hash] # NoRec)
         => (hist'.outcome[w] # "saved" /\ fs' = fs)]_vars

\* C33: at the end of every reconciliation pass the links with a registered
\* worker are exactly the links of the lines that are active in the queue
\* file at that moment.
C33_WorkersEqualActiveLines ==
    [][StartAndStop =>
         {l \in Links : running_processes'[l].present} = load_queue(queue')]_vars

\* C31: a hash present in the index stays present under every operation but
\* the dedupe scan's invalidation: a step that removes a hash from the index
\* is a step of the scan at the path the hash was recorded for, and a row
\* recorded for that path differs in mtime or size from the file now there.
C31_HashStaysUnlessInvalidated ==
    [][\A h \in Hashes :
         db[h] # NoRec /\ db'[h] = NoRec =>
            /\ dd_pc = "scan" /\ walk # <<>> /\ walk' = Tail(walk)
            /\ db[h].path = Head(walk)
            /\ Exists(fs, Head(walk))
            /\ \E g \in get_file_metadata(db, Head(walk)) :
                  \/ db[g].mtime # IntMtime(fs[Head(walk)].mtime)
                  \/ db[g].size # SizeOf(fs[Head(walk)].hash)]_vars

\* the watcher has reconciled and a dedupe run has ended: a hash that was in
\* the index when remove_duplicates began got a new row by its upsert and is
\* in the index
C31_Witness ==
    /\ dd_pc = "done"
    /\ hist.runs["w1"] = 1
    /\ \E h \in hist.dd.written :
          hist.dd.db0[h] # NoRec /\ db[h] # NoRec /\ db[h] # hist.dd.db0[h]

\* C34: when a dedupe run and a watcher's startup reconciliation work on the
\* same tree and index, every content hash that had a file before still has a
\* file once both are done.
C34_NoContentLost ==
    dd_pc = "done" /\ pc["w1"] # "init" =>
        \A h \in Hashes : HasFile(hist.fs0, h) => HasFile(fs, h)

\* the second run has ended: it removed no file, made no upsert and
\* invalidated no row
SecondRunChangedNothing ==
    /\ fs = hist.first.fs
    /\ hist.dd.written = {}
    /\ hist.dd.db0 = hist.first.db
    /\ db = hist.first.db

C32_SameOrderForSamePage ==
    scraped[1].done /\ scraped[2].done => scraped[1].items = scraped[2].items

\* C36: disabling a URL changes the queue file only by prefixing '-' to each
\* line whose stripped text is the URL and that does not start with '-';
\* every other line keeps its content and position, and the file is written
\* only if a line matched.
C36_DisableFrame ==
    dl.pc = "done" =>
        LET hit(i) == /\ LStrip(dl.lines[i].lead) = <<>>
                      /\ dl.lines[i].body = dl.link
                      /\ (dl.lines[i].lead = <<>> \/ dl.lines[i].lead[1] # "-")
        IN  /\ Len(queue) = Len(dl.lines)
            /\ \A i \in 1..Len(dl.lines) :
                  queue[i] = IF hit(i)
                             THEN [lead |-> <<"-">> \o dl.lines[i].lead, body |-> dl.lines[i].body]
                             ELSE dl.lines[i]
            /\ dl.wrote <=> \E i \in 1..Len(dl.lines) : hit(i)

\* a disable has prefixed a line with leading blanks and left alone a line
\* that names the same URL and was already prefixed
C36_Witness ==
    /\ dl.pc = "done"
    /\ dl.wrote
    /\ \E i, j \in 1..Len(queue) :
         /\ dl.lines[i] = [lead |-> <<" ">>, body |-> dl.link]
         /\ queue[i].lead = <<"-", " ">>
         /\ dl.lines[j] = [lead |-> <<"-">>, body |-> dl.link]
         /\ queue[j] = dl.lines[j]

\* C37: an external edit of the queue file is never lost to the supervisor:
\* when _disable_link writes the file, every line that was added or changed
\* since it read the file is still in the file after the write.
C37_ExternalEditKept ==
    [][DisableWrite /\ dl'.wrote =>
         \A i \in 1..Len(queue) :
            (i > Len(dl.lines) \/ queue[i] # dl.lines[i]) =>
               \E j \in 1..Len(queue') : queue'[j] = queue[i]]_vars

\* C38: without reload the supervisor never handles a dead worker (no probe,
\* no restart), never rewrites the queue file, and leaves a worker that has
\* ended registered as it ended.
C38_NoHandlingWithoutReload ==
    [][~reload =>
         /\ queue' = queue
         /\ hist'.handling.kind = "none"
         /\ dead_links' = {}
         /\ \A l \in Links :
               running_processes[l].present /\ ~running_processes[l].alive =>
                  running_processes'[l] = running_processes[l]]_vars

\* run() has returned without reload; a worker whose thread was deleted ended
\* as Gone, it is still registered and its line is still active in the file
C38_Witness ==
    /\ ~reload
    /\ spc = "returned"
    /\ \E l \in Links :
         /\ running_processes[l].present
         /\ running_processes[l].ending = "gone"
         /\ gone[ThreadOfLink(l)]
         /\ l \in load_queue(queue)

\* C39: when the queue file is missing as a pass loads it, the desired set is
\* empty for that pass, the pass starts no worker, at its end no worker is
\* registered, and the supervisor (in reload mode) goes on to the next pass.
C39_MissingFileStartsNothing ==
    hist.missingAtLoad =>
        /\ desired_links = {}
        /\ hist.started = {}
        /\ spc = "load" => \A l \in Links : ~running_processes[l].present
        /\ reload => spc \in {"load", "check"}

====
